---- MODULE Spec2Model ----
(***************************************************************************)
(* State-machine model of the sqlgen orchestration core:                   *)
(*   - QueryPipelineService (askQuestion, validateSql, explainQuery)       *)
(*   - TextToSqlService     (generateSql, trainFromSchema, executeQuery)   *)
(*   - TrainingService      (trainFromDatabase, trainFromDdl,              *)
(*                           trainFromDdlArray)                            *)
(*   - QdrantService        (createCollection, upsertVectors, search)      *)
(*   - PostgresService      (query, getSchema, getTableSchema)             *)
(*                                                                         *)
(* op, pc, loc, trace and outcome are the registers of the call that is    *)
(* running; parked holds the registers of a second call on the same        *)
(* service instances, suspended at one of its yield points (Switch resumes *)
(* it).  The specifications of sequential use never take Switch.           *)
(* Every external round trip                                               *)
(* (embedding, completion, vector index request, database query) is one    *)
(* action: the request is made, the collaborator answers with a value or   *)
(* an error chosen nondeterministically, and the code that handles the     *)
(* answer runs up to the next request.  trace is the sequence of calls    *)
(* the operation in flight has made so far.                                *)
(*                                                                         *)
(* Conventions.  Confidence values are scaled by 100 (0.7 is 70).  A       *)
(* vector is represented by its length.  Time stamps and elapsed time are  *)
(* not modelled.  crypto.randomUUID() is modelled as an id never returned  *)
(* before (nextId).  Effect.gen never resumes its generator with a throw:  *)
(* a failed effect that is yield*-ed ends the generator with that failure, *)
(* so a JavaScript try/catch around a yield* does not see Effect failures. *)
(***************************************************************************)
EXTENDS Integers, Sequences, FiniteSets, TLC

\* ---------------------------------------------------------------- bounds
MaxRecords == 3
MaxDdls == 3
MaxTables == 3
MaxCalls == 3

\* facade operations in one run
MaxOps == 3

\* ------------------------------------------------------ program constants
VectorSize == 1536
SearchLimit == 5
OtherSize == 512
NaN == -1
Undefined == "undefined"

CollectionName == "test_collection"

\* ------------------------------------------------------------ input sets
Questions == {"Show me all orders", "Count the users"}
Sqls == {"SELECT * FROM orders", "SELEC * FROM orders"}
Confidences == {0, 30, 70, 95, NaN}
MinConfidences == {0, 70, 100}
MaxRetriesValues == {0, 3}
EmbeddingDims == {VectorSize, OtherSize}
Ddls == {"CREATE TABLE users (id SERIAL PRIMARY KEY);", "CREATE TABLE orders (id SERIAL PRIMARY KEY);"}
TableNames == {"users", "orders", "products"}
RowSets == {<<>>, <<"row1">>}
PgErrors == {"syntax error", "connection refused"}
CallerIds == {0}

RECURSIVE SeqsUpTo(_, _)
SeqsUpTo(S, n) ==
  IF n = 0 THEN {<<>>}
  ELSE LET shorter == SeqsUpTo(S, n - 1)
       IN shorter \cup {Append(s, x) : s \in {t \in shorter : Len(t) = n - 1}, x \in S}

Min(a, b) == IF a < b THEN a ELSE b

\* ------------------------------------------------------- errors, results
NoError == [name |-> "none", msg |-> "", cause |-> <<>>, root |-> ""]

\* new X(msg, cause): cause is the chain of the names of the wrapped errors,
\* outermost first; root is the message of the innermost one
MkError(name, msg, causeErr) ==
  [name |-> name, msg |-> msg,
   cause |-> IF causeErr.name = "none" THEN <<>> ELSE <<causeErr.name>> \o causeErr.cause,
   root |-> IF causeErr.name = "none" THEN msg ELSE causeErr.root]

\* an error thrown by a client library
RawError(msg) == [name |-> "Error", msg |-> msg, cause |-> <<>>, root |-> msg]

Ok(v) == [status |-> "ok", value |-> v, error |-> NoError]
Fail(e) == [status |-> "fail", value |-> "none", error |-> e]
NoOutcome == [status |-> "none", value |-> "none", error |-> NoError]

E(c, a, k) == [call |-> c, arg |-> a, n |-> k]

Calls(tr, c) == {k \in 1..Len(tr) : tr[k].call = c}

Loc0 ==
  [question |-> "", sql |-> "", confidence |-> 0, explanation |-> "",
   items |-> <<>>, i |-> 0, ddl |-> "", vectors |-> <<>>, size |-> 0,
   context |-> 0]

VARIABLES config, embeddingDim, op, pc, loc, trace, outcome, parked, collections, points, nextId, runtime

vars == <<config, embeddingDim, op, pc, loc, trace, outcome, parked, collections, points, nextId, runtime>>

store == <<collections, points, nextId>>

\* what the facade has built so far: operations run, pg Pools constructed,
\* pools ended, QdrantClients constructed
NoRuntime == [operations |-> 0, pools |-> 0, closed |-> 0, clients |-> 0]

Idle == pc \in {"idle", "done"}

\* the registers of a call that has not started
NoCall == [op |-> "none", pc |-> "idle", loc |-> Loc0, trace |-> <<>>, outcome |-> NoOutcome]

Init ==
  /\ config \in [minConfidence : MinConfidences, dryRun : BOOLEAN, maxRetries : MaxRetriesValues]
  /\ embeddingDim \in EmbeddingDims
  /\ op = "none"
  /\ pc = "idle"
  /\ loc = Loc0
  /\ trace = <<>>
  /\ outcome = NoOutcome
  /\ parked = NoCall
  /\ collections = <<>>
  /\ points = <<>>
  /\ nextId = 1
  /\ runtime = NoRuntime

\* ============================================================ PostgresService
\* postgres.query: Effect.tryPromise around pool.query
PgFail(reason) == MkError("PostgresError", "Query failed", RawError(reason))

PgResults == {Ok(rows) : rows \in RowSets} \cup {Fail(PgFail(r)) : r \in PgErrors}

\* one round trip of pool.query: the statement sent and the answer (the rows,
\* or the reason of the failure)
PgEvents(sql, k, pgRes) ==
  <<E("pool.query", sql, k),
    IF pgRes.status = "ok" THEN E("pool.query.ok", pgRes.value, k)
    ELSE E("pool.query.fail", pgRes.error.root, k)>>

\* ======================================================= QueryPipelineService
\* variant of GateRejects: a confidence at the threshold is rejected too
GateRejectsAtThreshold(confidence, minConfidence) ==
  confidence # NaN /\ confidence <= minConfidence

\* variant of GateRejects: the comparison turned around
GateRejectsGreater(confidence, minConfidence) ==
  confidence # NaN /\ confidence > minConfidence

\* sqlResult.confidence < config.minConfidence (a JavaScript comparison:
\* false when the confidence is not a number)
GateRejects(confidence, minConfidence) ==
  confidence # NaN /\ confidence < minConfidence

ExplainSql(sql) == "EXPLAIN " \o sql

ExplainAnalyzeSql(sql) == "EXPLAIN ANALYZE " \o sql

\* variant of ValidateSqlResult: the catch block taken for a failed query
ValidateSqlResultCatches(pgRes) ==
  IF pgRes.status = "ok" THEN Ok(TRUE) ELSE Ok(FALSE)

\* validateSql: the result of the operation given the answer to its query.
\* The catch block is not entered for a failed effect, so the mapped error
\* is the result.
ValidateSqlResult(pgRes) ==
  IF pgRes.status = "ok" THEN Ok(TRUE)
  ELSE Fail(MkError("QueryPipelineError", "SQL validation failed", pgRes.error))

\* variant of ExplainQueryResult: a failed query answered with no rows
ExplainQueryResultSwallows(pgRes) ==
  IF pgRes.status = "ok" THEN Ok(pgRes.value) ELSE Ok(<<>>)

\* explainQuery: result.rows, or the mapped error
ExplainQueryResult(pgRes) ==
  IF pgRes.status = "ok" THEN Ok(pgRes.value)
  ELSE Fail(MkError("QueryPipelineError", "Query explanation failed", pgRes.error))

\* executeQuery (TextToSqlService): result.rows, or the mapped error
ExecuteQueryResult(pgRes) ==
  IF pgRes.status = "ok" THEN Ok(pgRes.value)
  ELSE Fail(MkError("TextToSqlError", "Query execution failed", pgRes.error))

\* variant of ExecutesQuery: dryRun ignored
ExecutesQueryAlways(dryRun) == TRUE

\* if (!config.dryRun) results = yield* textToSql.executeQuery(...)
ExecutesQuery(dryRun) == ~dryRun

QueryResultOf(l, rows) ==
  [question |-> l.question, sql |-> l.sql, confidence |-> l.confidence,
   explanation |-> l.explanation, results |-> rows]

StartAskQuestion(q) ==
  /\ Idle
  /\ op' = "askQuestion"
  /\ pc' = "gs_embed"
  /\ loc' = [Loc0 EXCEPT !.question = q]
  /\ trace' = <<E("generateSql.call", q, 0)>>
  /\ outcome' = NoOutcome
  /\ UNCHANGED <<config, embeddingDim, parked, runtime, store>>

StartValidateSql(sql) ==
  /\ Idle
  /\ op' = "validateSql"
  /\ pc' = "vs_query"
  /\ loc' = [Loc0 EXCEPT !.sql = sql]
  /\ trace' = <<E("validateSql.call", sql, 0)>>
  /\ outcome' = NoOutcome
  /\ UNCHANGED <<config, embeddingDim, parked, runtime, store>>

StartExplainQuery(sql) ==
  /\ Idle
  /\ op' = "explainQuery"
  /\ pc' = "xq_query"
  /\ loc' = [Loc0 EXCEPT !.sql = sql]
  /\ trace' = <<E("explainQuery.call", sql, 0)>>
  /\ outcome' = NoOutcome
  /\ UNCHANGED <<config, embeddingDim, parked, runtime, store>>

\* variant of GenerateSqlFailed: the error of generateSql passed on as it is
GenerateSqlFailedUnwrapped(tr, e) ==
  /\ pc' = "done"
  /\ trace' = Append(tr, E("generateSql.fail", e.msg, 0))
  /\ outcome' = Fail(e)
  /\ UNCHANGED loc

\* generateSql failed: askQuestion maps the error and fails
GenerateSqlFailed(tr, e) ==
  /\ pc' = "done"
  /\ trace' = Append(tr, E("generateSql.fail", e.msg, 0))
  /\ outcome' = Fail(MkError("QueryPipelineError", "SQL generation failed", e))
  /\ UNCHANGED loc

\* generateSql, step 1: embed(question)
GsEmbed ==
  /\ pc = "gs_embed"
  /\ LET tr == Append(trace, E("embed", loc.question, 0))
     IN \/ /\ pc' = "gs_search"
           /\ trace' = tr
           /\ UNCHANGED <<loc, outcome>>
        \/ GenerateSqlFailed(tr, MkError("TextToSqlError", "Failed to generate embedding",
                                         RawError("embedding failed")))
  /\ UNCHANGED <<config, embeddingDim, parked, runtime, op, store>>

\* qdrant.search: the answer of client.search mapped to VectorRecords
SearchResult(pts, limit) == Min(limit, Cardinality(DOMAIN pts))

\* variant of GsSearch: generateSql gives up when the search finds no record
GsSearchRequiresContext ==
  /\ pc = "gs_search"
  /\ LET tr == Append(trace, E("client.search", CollectionName, SearchLimit))
     IN \/ IF SearchResult(points, SearchLimit) = 0
           THEN GenerateSqlFailed(tr, MkError("TextToSqlError", "No schema context", NoError))
           ELSE /\ pc' = "gs_complete"
                /\ trace' = tr
                /\ loc' = [loc EXCEPT !.context = SearchResult(points, SearchLimit)]
                /\ UNCHANGED outcome
        \/ GenerateSqlFailed(tr,
             MkError("TextToSqlError", "Vector search failed",
                     MkError("QdrantError", "Search failed", RawError("search failed"))))
  /\ UNCHANGED <<config, embeddingDim, parked, runtime, op, store>>

\* generateSql, step 2: qdrant.search(questionEmbedding.embedding, 5)
GsSearch ==
  /\ pc = "gs_search"
  /\ LET tr == Append(trace, E("client.search", CollectionName, SearchLimit))
     IN \/ /\ pc' = "gs_complete"
           /\ trace' = tr
           /\ loc' = [loc EXCEPT !.context = SearchResult(points, SearchLimit)]
           /\ UNCHANGED outcome
        \/ GenerateSqlFailed(tr,
             MkError("TextToSqlError", "Vector search failed",
                     MkError("QdrantError", "Search failed", RawError("search failed"))))
  /\ UNCHANGED <<config, embeddingDim, parked, runtime, op, store>>

\* The completion texts: a JSON object with the three fields, a JSON object
\* that lacks fields (reading an absent field gives undefined), or text
\* JSON.parse rejects
Completions ==
  [kind : {"json"}, sql : Sqls, confidence : Confidences, explanation : {"because"}]
  \cup {[kind |-> "json", sql |-> Undefined, confidence |-> NaN, explanation |-> Undefined],
        [kind |-> "json", sql |-> Undefined, confidence |-> 95, explanation |-> "because"]}
  \cup {[kind |-> "garbage", sql |-> "", confidence |-> 0, explanation |-> ""]}

\* generateSql, step 3: generateText, then JSON.parse of result.text
GsComplete ==
  /\ pc = "gs_complete"
  /\ LET tr == Append(trace, E("generateText", loc.question, loc.context))
     IN \/ \E c \in Completions :
             IF c.kind = "json"
             THEN /\ pc' = "aq_gate"
                  /\ trace' = Append(tr, E("generateSql.ok", c.sql, c.confidence))
                  /\ loc' = [loc EXCEPT !.sql = c.sql, !.confidence = c.confidence,
                                        !.explanation = c.explanation]
                  /\ UNCHANGED outcome
             ELSE GenerateSqlFailed(tr, MkError("TextToSqlError", "Failed to parse AI response",
                                                RawError("SyntaxError")))
        \/ GenerateSqlFailed(tr, MkError("TextToSqlError", "SQL generation failed",
                                         RawError("completion failed")))
  /\ UNCHANGED <<config, embeddingDim, parked, runtime, op, store>>

\* variant of AqGate: the passed gate leads straight to executeQuery
AqGateExecutesFirst ==
  /\ pc = "aq_gate"
  /\ IF GateRejects(loc.confidence, config.minConfidence)
     THEN /\ pc' = "done"
          /\ trace' = Append(trace, E("gate.reject", loc.sql, loc.confidence))
          /\ outcome' = Fail(MkError("QueryPipelineError", "Generated SQL has low confidence", NoError))
     ELSE /\ pc' = "eq_query"
          /\ trace' = trace \o <<E("gate.pass", loc.sql, loc.confidence),
                                 E("executeQuery.call", loc.sql, 0)>>
          /\ UNCHANGED outcome
  /\ UNCHANGED <<config, embeddingDim, parked, runtime, op, loc, store>>

\* askQuestion: the confidence gate, then the call of validateSql
AqGate ==
  /\ pc = "aq_gate"
  /\ IF GateRejects(loc.confidence, config.minConfidence)
     THEN /\ pc' = "done"
          /\ trace' = Append(trace, E("gate.reject", loc.sql, loc.confidence))
          /\ outcome' = Fail(MkError("QueryPipelineError", "Generated SQL has low confidence", NoError))
     ELSE /\ pc' = "vs_query"
          /\ trace' = trace \o <<E("gate.pass", loc.sql, loc.confidence),
                                 E("validateSql.call", loc.sql, 0)>>
          /\ UNCHANGED outcome
  /\ UNCHANGED <<config, embeddingDim, parked, runtime, op, loc, store>>

\* askQuestion after validateSql returned isValid
AfterValidation(tr, isValid) ==
  IF ~isValid
  THEN /\ pc' = "done"
       /\ trace' = tr
       /\ outcome' = Fail(MkError("QueryPipelineError", "Generated SQL is invalid", NoError))
  ELSE IF ExecutesQuery(config.dryRun)
       THEN /\ pc' = "eq_query"
            /\ trace' = Append(tr, E("executeQuery.call", loc.sql, 0))
            /\ UNCHANGED outcome
       ELSE /\ pc' = "done"
            /\ trace' = tr
            /\ outcome' = Ok(QueryResultOf(loc, <<>>))

\* variant of VsQuery: the candidate is kept in a field of the service that
\* the calls share, so the statement checked is the one written last
VsQuerySharedCandidate ==
  /\ pc = "vs_query"
  /\ \E pgRes \in PgResults :
       LET sql == IF parked.pc \in {"aq_gate", "vs_query", "eq_query"} THEN parked.loc.sql
                  ELSE loc.sql
           res == ValidateSqlResult(pgRes)
           tr == trace \o PgEvents(ExplainSql(sql), 0, pgRes)
                       \o <<E(IF res.status = "ok" THEN "validateSql.ok" ELSE "validateSql.fail",
                              sql, 0)>>
       IN IF op = "validateSql"
          THEN /\ pc' = "done"
               /\ trace' = tr
               /\ outcome' = res
          ELSE IF res.status = "ok"
               THEN AfterValidation(tr, res.value)
               ELSE /\ pc' = "done"
                    /\ trace' = tr
                    /\ outcome' = res
  /\ UNCHANGED <<config, embeddingDim, parked, runtime, op, loc, store>>

\* variant of VsQuery: askQuestion goes on whatever validateSql answers
VsQueryIgnoresFailure ==
  /\ pc = "vs_query"
  /\ \E pgRes \in PgResults :
       LET res == ValidateSqlResult(pgRes)
           tr == trace \o PgEvents(ExplainSql(loc.sql), 0, pgRes)
                       \o <<E(IF res.status = "ok" THEN "validateSql.ok" ELSE "validateSql.fail",
                              loc.sql, 0)>>
       IN IF op = "validateSql"
          THEN /\ pc' = "done"
               /\ trace' = tr
               /\ outcome' = res
          ELSE AfterValidation(tr, TRUE)
  /\ UNCHANGED <<config, embeddingDim, parked, runtime, op, loc, store>>

\* validateSql: postgres.query(`EXPLAIN ${sql}`)
VsQuery ==
  /\ pc = "vs_query"
  /\ \E pgRes \in PgResults :
       LET res == ValidateSqlResult(pgRes)
           tr == trace \o PgEvents(ExplainSql(loc.sql), 0, pgRes)
                       \o <<E(IF res.status = "ok" THEN "validateSql.ok" ELSE "validateSql.fail",
                              loc.sql, 0)>>
       IN IF op = "validateSql"
          THEN /\ pc' = "done"
               /\ trace' = tr
               /\ outcome' = res
          ELSE IF res.status = "ok"
               THEN AfterValidation(tr, res.value)
               ELSE /\ pc' = "done"
                    /\ trace' = tr
                    /\ outcome' = res
  /\ UNCHANGED <<config, embeddingDim, parked, runtime, op, loc, store>>

\* variant of EqQuery: a failed execution is tried again while
\* config.maxRetries allows
EqQueryRetries ==
  /\ pc = "eq_query"
  /\ \E pgRes \in PgResults :
       LET res == ExecuteQueryResult(pgRes)
           tr == trace \o PgEvents(loc.sql, 0, pgRes)
       IN IF res.status = "ok"
          THEN /\ pc' = "done"
               /\ trace' = Append(tr, E("executeQuery.ok", loc.sql, 0))
               /\ outcome' = Ok(QueryResultOf(loc, res.value))
          ELSE IF Cardinality(Calls(trace, "executeQuery.call")) <= config.maxRetries
               THEN /\ pc' = "eq_query"
                    /\ trace' = tr \o <<E("executeQuery.fail", loc.sql, 0),
                                        E("executeQuery.call", loc.sql, 0)>>
                    /\ UNCHANGED outcome
               ELSE /\ pc' = "done"
                    /\ trace' = Append(tr, E("executeQuery.fail", loc.sql, 0))
                    /\ outcome' = Fail(MkError("QueryPipelineError", "Query execution failed", res.error))
  /\ UNCHANGED <<config, embeddingDim, parked, runtime, op, loc, store>>

\* executeQuery: postgres.query(sql); askQuestion maps a failure
EqQuery ==
  /\ pc = "eq_query"
  /\ \E pgRes \in PgResults :
       LET res == ExecuteQueryResult(pgRes)
           tr == trace \o PgEvents(loc.sql, 0, pgRes)
       IN /\ pc' = "done"
          /\ IF res.status = "ok"
             THEN /\ trace' = Append(tr, E("executeQuery.ok", loc.sql, 0))
                  /\ outcome' = Ok(QueryResultOf(loc, res.value))
             ELSE /\ trace' = Append(tr, E("executeQuery.fail", loc.sql, 0))
                  /\ outcome' = Fail(MkError("QueryPipelineError", "Query execution failed", res.error))
  /\ UNCHANGED <<config, embeddingDim, parked, runtime, op, loc, store>>

\* variant of XqQuery: with dryRun the statement is planned, not run
XqQueryHonoursDryRun ==
  /\ pc = "xq_query"
  /\ \E pgRes \in PgResults :
       /\ pc' = "done"
       /\ trace' = trace \o PgEvents(IF config.dryRun THEN ExplainSql(loc.sql)
                                      ELSE ExplainAnalyzeSql(loc.sql), 0, pgRes)
       /\ outcome' = ExplainQueryResult(pgRes)
  /\ UNCHANGED <<config, embeddingDim, parked, runtime, op, loc, store>>

\* explainQuery: postgres.query(`EXPLAIN ANALYZE ${sql}`)
XqQuery ==
  /\ pc = "xq_query"
  /\ \E pgRes \in PgResults :
       /\ pc' = "done"
       /\ trace' = trace \o PgEvents(ExplainAnalyzeSql(loc.sql), 0, pgRes)
       /\ outcome' = ExplainQueryResult(pgRes)
  /\ UNCHANGED <<config, embeddingDim, parked, runtime, op, loc, store>>

\* two calls on the same services: the running call is suspended at its
\* yield point and the other call is resumed
Switch ==
  /\ parked' = [op |-> op, pc |-> pc, loc |-> loc, trace |-> trace, outcome |-> outcome]
  /\ op' = parked.op
  /\ pc' = parked.pc
  /\ loc' = parked.loc
  /\ trace' = parked.trace
  /\ outcome' = parked.outcome
  /\ UNCHANGED <<config, embeddingDim, runtime, store>>

\* ============================================================== QdrantService
\* client.upsert with wait: true: the points as the vector index holds them
\* afterwards (one record per id, the last write wins)
RECURSIVE Upserted(_, _)
Upserted(pts, vs) ==
  IF vs = <<>> THEN pts
  ELSE LET v == Head(vs)
           one == [id \in DOMAIN pts \cup {v.id} |->
                     IF id = v.id THEN [content |-> v.content, dim |-> v.dim, type |-> v.type]
                     ELSE pts[id]]
       IN Upserted(one, Tail(vs))

\* the requests upsertVectors sends for a batch: every record is passed on
UpsertRequest(vs) ==
  [k \in 1..Len(vs) |-> E("client.upsert.point", vs[k].content, vs[k].dim)]

\* variant of RandomUUID: the same id every time
RandomUUIDFixed(counter) == 1

\* crypto.randomUUID(): an id that was never returned before
RandomUUID(counter) == counter

\* ============================================================ TrainingService
\* variant of ForEachNext: the elements are taken from the last to the first
ForEachNextReversed(i, n, failed) ==
  IF failed THEN 0 ELSE IF i = 0 THEN n ELSE i - 1

\* variant of ForEachNext: the last element is left out
ForEachNextSkipsLast(i, n, failed) ==
  IF failed THEN 0 ELSE IF i + 1 < n THEN i + 1 ELSE 0

\* variant of ForEachNext: the loop goes on after a failure
ForEachNextContinues(i, n, failed) ==
  IF i < n THEN i + 1 ELSE 0

\* Effect.forEach(items, f), sequential: the index of the element to process
\* after element i has ended, 0 when the loop ends (after the last element or
\* at the first failure)
ForEachNext(i, n, failed) ==
  IF failed THEN 0 ELSE IF i < n THEN i + 1 ELSE 0

\* getTableSchema: the rendered DDL of a table from its column rows
RenderColumn(row) ==
  row.column_name \o " " \o row.data_type
    \o (IF row.is_nullable = "NO" THEN " NOT NULL" ELSE "")
    \o (IF row.column_default # "" THEN " DEFAULT " \o row.column_default ELSE "")

RECURSIVE JoinColumns(_)
JoinColumns(rows) ==
  IF rows = <<>> THEN ""
  ELSE IF Len(rows) = 1 THEN RenderColumn(rows[1])
  ELSE RenderColumn(rows[1]) \o ", " \o JoinColumns(Tail(rows))

TableDdl(tableName, rows) == "CREATE TABLE " \o tableName \o " (" \o JoinColumns(rows) \o ")"

ColumnRows ==
  <<[column_name |-> "id", data_type |-> "integer", is_nullable |-> "NO", column_default |-> ""],
    [column_name |-> "status", data_type |-> "text", is_nullable |-> "YES", column_default |-> "'pending'"]>>

NoDuplicates(s) == \A a, b \in 1..Len(s) : s[a] = s[b] => a = b

TableLists == {s \in SeqsUpTo(TableNames, MaxTables) : NoDuplicates(s)}

DdlLists == SeqsUpTo(Ddls, MaxDdls)

\* ids still available under the cap on generated records
Budget == MaxRecords + 1 - nextId

Finish(tr, l, out) ==
  /\ pc' = "done"
  /\ trace' = tr
  /\ loc' = l
  /\ outcome' = out

\* the loop body for element k: trainFromDatabase fetches the table's DDL
\* first, the DDL entry points call trainFromSchema directly
BeginUnit(tr, l, k) ==
  /\ outcome' = outcome
  /\ IF op = "trainFromDatabase"
     THEN /\ pc' = "tdb_getTableSchema"
          /\ loc' = [l EXCEPT !.i = k]
          /\ trace' = Append(tr, E("getTableSchema.call", l.items[k], k))
     ELSE /\ pc' = "tfs_embed"
          /\ loc' = [l EXCEPT !.i = k, !.ddl = l.items[k]]
          /\ trace' = Append(tr, E("trainFromSchema.call", l.items[k], k))

\* element l.i of the loop has ended with res (already a TrainingError when
\* it failed)
AfterUnit(tr, l, res) ==
  LET k == ForEachNext(l.i, Len(l.items), res.status # "ok")
  IN IF k # 0 THEN BeginUnit(tr, l, k)
     ELSE Finish(tr, l, IF res.status = "ok" THEN Ok("void") ELSE res)

\* createCollection has ended with res
AfterCreateCollection(tr, l, res) ==
  LET tr2 == Append(tr, E(IF res.status = "ok" THEN "createCollection.ok" ELSE "createCollection.fail",
                          CollectionName, l.size))
  IN IF op = "createCollection" THEN Finish(tr2, l, res)
     ELSE IF res.status # "ok"
          THEN Finish(tr2, l, Fail(MkError("TrainingError", "Failed to create collection", res.error)))
          ELSE AfterUnit(tr2, [l EXCEPT !.i = 0], Ok("void"))

\* variant of AfterTrainFromSchema: the error of trainFromSchema is passed
\* on as it is
AfterTrainFromSchemaUnwrapped(tr, l, res, id) ==
  LET tr2 == Append(tr, E(IF res.status = "ok" THEN "trainFromSchema.ok" ELSE "trainFromSchema.fail",
                          l.ddl, id))
  IN IF op = "trainFromSchema" THEN Finish(tr2, l, res)
     ELSE AfterUnit(tr2, l, res)

\* trainFromSchema has ended with res; id is the stored record's id
AfterTrainFromSchema(tr, l, res, id) ==
  LET tr2 == Append(tr, E(IF res.status = "ok" THEN "trainFromSchema.ok" ELSE "trainFromSchema.fail",
                          l.ddl, id))
  IN IF op = "trainFromSchema" THEN Finish(tr2, l, res)
     ELSE AfterUnit(tr2, l,
            IF res.status = "ok" THEN res
            ELSE Fail(MkError("TrainingError", "Failed to train schema", res.error)))

StartTrainFromDatabase ==
  /\ Idle
  /\ op' = "trainFromDatabase"
  /\ pc' = "tdb_getSchema"
  /\ loc' = Loc0
  /\ trace' = <<E("getSchema.call", "", 0)>>
  /\ outcome' = NoOutcome
  /\ UNCHANGED <<config, embeddingDim, parked, runtime, store>>

StartTrainFromDdl(ddl) ==
  /\ Idle
  /\ Budget >= 1
  /\ op' = "trainFromDdl"
  /\ pc' = "cc_getCollections"
  /\ loc' = [Loc0 EXCEPT !.items = <<ddl>>, !.size = VectorSize]
  /\ trace' = <<E("createCollection.call", CollectionName, VectorSize)>>
  /\ outcome' = NoOutcome
  /\ UNCHANGED <<config, embeddingDim, parked, runtime, store>>

StartTrainFromDdlArray(ddls) ==
  /\ Idle
  /\ Budget >= Len(ddls)
  /\ op' = "trainFromDdlArray"
  /\ pc' = "cc_getCollections"
  /\ loc' = [Loc0 EXCEPT !.items = ddls, !.size = VectorSize]
  /\ trace' = <<E("createCollection.call", CollectionName, VectorSize)>>
  /\ outcome' = NoOutcome
  /\ UNCHANGED <<config, embeddingDim, parked, runtime, store>>

StartTrainFromSchema(ddl) ==
  /\ Idle
  /\ Budget >= 1
  /\ op' = "trainFromSchema"
  /\ pc' = "tfs_embed"
  /\ loc' = [Loc0 EXCEPT !.ddl = ddl]
  /\ trace' = <<E("trainFromSchema.call", ddl, 0)>>
  /\ outcome' = NoOutcome
  /\ UNCHANGED <<config, embeddingDim, parked, runtime, store>>

StartCreateCollection(vectorSize) ==
  /\ Idle
  /\ op' = "createCollection"
  /\ pc' = "cc_getCollections"
  /\ loc' = [Loc0 EXCEPT !.size = vectorSize]
  /\ trace' = <<E("createCollection.call", CollectionName, vectorSize)>>
  /\ outcome' = NoOutcome
  /\ UNCHANGED <<config, embeddingDim, parked, runtime, store>>

\* a caller's sequence of createCollection calls, one after the other, from
\* a vector index without the collection: the next call of the sequence
\* (trace goes on over the whole sequence)
StartNextCreateCollection(vectorSize) ==
  /\ pc = "idle" \/ (op = "createCollection" /\ pc = "done")
  /\ Cardinality(Calls(trace, "createCollection.call")) < MaxCalls
  /\ op' = "createCollection"
  /\ pc' = "cc_getCollections"
  /\ loc' = [Loc0 EXCEPT !.size = vectorSize]
  /\ trace' = Append(trace, E("createCollection.call", CollectionName, vectorSize))
  /\ outcome' = NoOutcome
  /\ UNCHANGED <<config, embeddingDim, parked, runtime, store>>

StartUpsertVectors(vs) ==
  /\ Idle
  /\ op' = "upsertVectors"
  /\ pc' = "uv_upsert"
  /\ loc' = [Loc0 EXCEPT !.vectors = vs]
  /\ trace' = <<E("upsertVectors.call", CollectionName, Len(vs))>>
  /\ outcome' = NoOutcome
  /\ UNCHANGED <<config, embeddingDim, parked, runtime, store>>

\* variant of TdbGetSchema: returns at once when there are no tables
TdbGetSchemaEarlyReturn ==
  /\ pc = "tdb_getSchema"
  /\ LET sql == "SELECT table_name FROM information_schema.tables WHERE table_schema = 'public'"
     IN \/ \E tables \in TableLists :
             /\ Len(tables) <= Budget
             /\ IF tables = <<>>
                THEN Finish(trace \o PgEvents(sql, 0, Ok(tables)) \o <<E("getSchema.ok", "", 0)>>,
                            loc, Ok("void"))
                ELSE /\ pc' = "cc_getCollections"
                     /\ loc' = [loc EXCEPT !.items = tables, !.size = VectorSize]
                     /\ trace' = trace \o PgEvents(sql, 0, Ok(tables))
                                      \o <<E("getSchema.ok", "", Len(tables)),
                                           E("createCollection.call", CollectionName, VectorSize)>>
                     /\ UNCHANGED outcome
        \/ \E r \in PgErrors :
             Finish(trace \o PgEvents(sql, 0, Fail(PgFail(r))) \o <<E("getSchema.fail", "", 0)>>, loc,
                    Fail(MkError("TrainingError", "Failed to get schema", PgFail(r))))
  /\ UNCHANGED <<config, embeddingDim, parked, runtime, op, store>>

\* trainFromDatabase: postgres.getSchema(), then the call of createCollection
TdbGetSchema ==
  /\ pc = "tdb_getSchema"
  /\ LET sql == "SELECT table_name FROM information_schema.tables WHERE table_schema = 'public'"
     IN \/ \E tables \in TableLists :
             /\ Len(tables) <= Budget
             /\ pc' = "cc_getCollections"
             /\ loc' = [loc EXCEPT !.items = tables, !.size = VectorSize]
             /\ trace' = trace \o PgEvents(sql, 0, Ok(tables))
                              \o <<E("getSchema.ok", "", Len(tables)),
                                   E("createCollection.call", CollectionName, VectorSize)>>
             /\ UNCHANGED outcome
        \/ \E r \in PgErrors :
             Finish(trace \o PgEvents(sql, 0, Fail(PgFail(r))) \o <<E("getSchema.fail", "", 0)>>, loc,
                    Fail(MkError("TrainingError", "Failed to get schema", PgFail(r))))
  /\ UNCHANGED <<config, embeddingDim, parked, runtime, op, store>>

\* variant of CcGetCollections: an existing collection is deleted and
\* created anew
CcGetCollectionsRecreates ==
  /\ pc = "cc_getCollections"
  /\ LET tr == Append(trace, E("client.getCollections", "", 0))
     IN \/ /\ pc' = "cc_create"
           /\ trace' = IF collections # <<>>
                        THEN Append(tr, E("client.deleteCollection", CollectionName, 0))
                        ELSE tr
           /\ collections' = <<>>
           /\ points' = <<>>
           /\ UNCHANGED <<loc, outcome, nextId>>
        \/ /\ AfterCreateCollection(tr, loc,
                Fail(MkError("QdrantError", "Failed to create collection", RawError("unreachable"))))
           /\ UNCHANGED store
  /\ UNCHANGED <<config, embeddingDim, parked, runtime, op>>

\* variant of CcGetCollections: the create request is sent whether or not
\* the name is listed
CcGetCollectionsNoCheck ==
  /\ pc = "cc_getCollections"
  /\ LET tr == Append(trace, E("client.getCollections", "", 0))
     IN \/ /\ pc' = "cc_create"
           /\ trace' = tr
           /\ UNCHANGED <<loc, outcome>>
        \/ AfterCreateCollection(tr, loc,
             Fail(MkError("QdrantError", "Failed to create collection", RawError("unreachable"))))
  /\ UNCHANGED <<config, embeddingDim, parked, runtime, op, store>>

\* createCollection: client.getCollections() and the test for the name
CcGetCollections ==
  /\ pc = "cc_getCollections"
  /\ LET tr == Append(trace, E("client.getCollections", "", 0))
     IN \/ IF collections # <<>>
           THEN AfterCreateCollection(tr, loc, Ok("void"))
           ELSE /\ pc' = "cc_create"
                /\ trace' = tr
                /\ UNCHANGED <<loc, outcome>>
        \/ AfterCreateCollection(tr, loc,
             Fail(MkError("QdrantError", "Failed to create collection", RawError("unreachable"))))
  /\ UNCHANGED <<config, embeddingDim, parked, runtime, op, store>>

\* createCollection: client.createCollection(name, {size, Cosine}).  For a
\* name that is absent the request creates the collection (with no points)
\* or fails.  For a name that exists by now (created after this call's
\* check) the vector index rejects the request, or, as MockQdrantClient
\* does, adds a second entry under the name and clears its points.
CcCreate ==
  /\ pc = "cc_create"
  /\ LET tr == Append(trace, E("client.createCollection", CollectionName, loc.size))
     IN \/ /\ collections' = Append(collections, loc.size)
           /\ points' = <<>>
           /\ AfterCreateCollection(tr, loc, Ok("void"))
        \/ /\ UNCHANGED <<collections, points>>
           /\ AfterCreateCollection(tr, loc,
                Fail(MkError("QdrantError", "Failed to create collection",
                             RawError(IF collections = <<>> THEN "create failed"
                                      ELSE "already exists"))))
  /\ UNCHANGED <<config, embeddingDim, parked, runtime, op, nextId>>

\* trainFromDatabase loop body: postgres.getTableSchema(table), then the call
\* of trainFromSchema
TdbGetTableSchema ==
  /\ pc = "tdb_getTableSchema"
  /\ LET table == loc.items[loc.i]
         sql == "SELECT column_name, data_type, is_nullable, column_default FROM information_schema.columns WHERE table_name = $1"
     IN \/ LET ddl == TableDdl(table, ColumnRows)
           IN /\ pc' = "tfs_embed"
              /\ loc' = [loc EXCEPT !.ddl = ddl]
              /\ trace' = trace \o PgEvents(sql, loc.i, Ok(ColumnRows))
                               \o <<E("getTableSchema.ok", table, loc.i),
                                    E("trainFromSchema.call", ddl, loc.i)>>
              /\ UNCHANGED outcome
        \/ \E r \in PgErrors :
             AfterUnit(trace \o PgEvents(sql, loc.i, Fail(PgFail(r)))
                             \o <<E("getTableSchema.fail", table, loc.i)>>, loc,
                       Fail(MkError("TrainingError", "Failed to get table schema", PgFail(r))))
  /\ UNCHANGED <<config, embeddingDim, parked, runtime, op, store>>

\* variant of TfsEmbed: the record is stored before the embedding is
\* awaited, so a failed embedding leaves a record without a vector behind
TfsEmbedStoresFirst ==
  /\ pc = "tfs_embed"
  /\ LET tr == Append(trace, E("embed", loc.ddl, 0))
         vectorId == RandomUUID(nextId)
     IN /\ nextId' = nextId + 1
        /\ \/ /\ pc' = "uv_upsert"
              /\ loc' = [loc EXCEPT !.vectors = <<[id |-> vectorId, dim |-> embeddingDim,
                                                   content |-> loc.ddl, type |-> "schema"]>>]
              /\ trace' = Append(tr, E("upsertVectors.call", CollectionName, 1))
              /\ UNCHANGED <<outcome, points>>
           \/ LET v == <<[id |-> vectorId, dim |-> 0, content |-> loc.ddl, type |-> "schema"]>>
              IN /\ points' = Upserted(points, v)
                 /\ AfterTrainFromSchema(tr \o UpsertRequest(v), loc,
                      Fail(MkError("TextToSqlError", "Failed to generate embedding",
                                   RawError("embedding failed"))), 0)
  /\ UNCHANGED <<config, embeddingDim, parked, runtime, op, collections>>

\* trainFromSchema: embed(ddl), crypto.randomUUID(), then the call of
\* upsertVectors with the one record
TfsEmbed ==
  /\ pc = "tfs_embed"
  /\ LET tr == Append(trace, E("embed", loc.ddl, 0))
     IN \/ LET vectorId == RandomUUID(nextId)
           IN /\ nextId' = nextId + 1
              /\ pc' = "uv_upsert"
              /\ loc' = [loc EXCEPT !.vectors = <<[id |-> vectorId, dim |-> embeddingDim,
                                                   content |-> loc.ddl, type |-> "schema"]>>]
              /\ trace' = Append(tr, E("upsertVectors.call", CollectionName, 1))
              /\ UNCHANGED outcome
        \/ /\ UNCHANGED nextId
           /\ AfterTrainFromSchema(tr, loc,
                Fail(MkError("TextToSqlError", "Failed to generate embedding", RawError("embedding failed"))), 0)
  /\ UNCHANGED <<config, embeddingDim, parked, runtime, op, collections, points>>

\* upsertVectors: client.upsert(collectionName, {wait: true, points})
UvUpsert ==
  /\ pc = "uv_upsert"
  /\ LET tr == trace \o UpsertRequest(loc.vectors)
         done(res) ==
           IF op = "upsertVectors" THEN Finish(tr, loc, res)
           ELSE AfterTrainFromSchema(tr, loc,
                  IF res.status = "ok" THEN res
                  ELSE Fail(MkError("TextToSqlError", "Failed to store schema", res.error)),
                  loc.vectors[1].id)
     IN \/ /\ points' = Upserted(points, loc.vectors)
           /\ done(Ok("void"))
        \/ /\ UNCHANGED points
           /\ done(Fail(MkError("QdrantError", "Failed to upsert vectors", RawError("upsert failed"))))
  /\ UNCHANGED <<config, embeddingDim, parked, runtime, op, collections, nextId>>

\* the batches a caller passes to upsertVectors directly
VectorBatches ==
  {<<[id |-> id, dim |-> d, content |-> "test", type |-> "test"]>> : id \in CallerIds, d \in EmbeddingDims}


\* ===================================================================== claims
CallNames(tr) == [k \in 1..Len(tr) |-> tr[k].call]

\* the candidate generateSql returned in the askQuestion call in flight
HasCandidate == op = "askQuestion" /\ Calls(trace, "generateSql.ok") # {}

LowConfidence == loc.confidence # NaN /\ loc.confidence < config.minConfidence

\* C1: in an askQuestion call whose candidate has confidence < minConfidence,
\* the call is rejected right at the gate with a QueryPipelineError: neither
\* validateSql nor executeQuery is invoked and no query reaches the database.
C1_LowConfidenceNeverExecutes ==
  (HasCandidate /\ LowConfidence) =>
    /\ pc \in {"aq_gate", "done"}
    /\ Calls(trace, "executeQuery.call") = {}
    /\ Calls(trace, "pool.query") = {}
    /\ pc = "done" => /\ outcome.status = "fail"
                      /\ outcome.error.name = "QueryPipelineError"

C1_Witness ==
  /\ HasCandidate /\ LowConfidence /\ pc = "done"
  /\ outcome.error.msg = "Generated SQL has low confidence"

\* C2: in an askQuestion call with dryRun = true executeQuery is never
\* invoked and the only statement sent to the database is EXPLAIN <sql>; once
\* the candidate has passed the gate and validation the call succeeds with
\* results = <<>> after exactly one query.
C2_DryRunNoExecution ==
  (op = "askQuestion" /\ config.dryRun) =>
    /\ Calls(trace, "executeQuery.call") = {}
    /\ \A k \in Calls(trace, "pool.query") : trace[k].arg = "EXPLAIN " \o loc.sql
    /\ (pc = "done" /\ Calls(trace, "validateSql.ok") # {}) =>
         /\ outcome.status = "ok"
         /\ outcome.value.results = <<>>
         /\ outcome.value.sql = loc.sql
         /\ Cardinality(Calls(trace, "pool.query")) = 1

C2_Witness ==
  /\ op = "askQuestion" /\ config.dryRun /\ pc = "done"
  /\ outcome.status = "ok"
  /\ Calls(trace, "validateSql.ok") # {}

\* C3: in an askQuestion call, validateSql is called only after generateSql
\* has returned and the gate has passed, and executeQuery is called only
\* after validateSql has returned; a successful run with dryRun = false makes
\* exactly the calls generateSql, gate, validateSql (EXPLAIN), executeQuery,
\* in this order.
C3_ValidationBetweenGateAndExecution ==
  op = "askQuestion" =>
    /\ \A v \in Calls(trace, "validateSql.call") :
         /\ \E s \in Calls(trace, "generateSql.ok"), g \in Calls(trace, "gate.pass") : s < g /\ g < v
         /\ ~LowConfidence
    /\ \A x \in Calls(trace, "executeQuery.call") :
         \E v \in Calls(trace, "validateSql.call"), q \in Calls(trace, "pool.query"),
            w \in Calls(trace, "validateSql.ok") :
           v < q /\ q < w /\ w < x /\ trace[q].arg = "EXPLAIN " \o loc.sql
    /\ (pc = "done" /\ outcome.status = "ok" /\ ~config.dryRun) =>
         CallNames(trace) =
           <<"generateSql.call", "embed", "client.search", "generateText", "generateSql.ok",
             "gate.pass", "validateSql.call", "pool.query", "pool.query.ok", "validateSql.ok",
             "executeQuery.call", "pool.query", "pool.query.ok", "executeQuery.ok">>

C3_Witness ==
  /\ op = "askQuestion" /\ pc = "done" /\ ~config.dryRun
  /\ outcome.status = "ok"
  /\ Calls(trace, "executeQuery.ok") # {}

\* C4 (as claimed): validateSql sends one EXPLAIN query and always completes
\* successfully, with true iff the query succeeded and false when it failed.
C4_ValidateSqlNeverFails ==
  (op = "validateSql" /\ pc = "done") =>
    /\ Cardinality(Calls(trace, "pool.query")) = 1
    /\ \A k \in Calls(trace, "pool.query") : trace[k].arg = "EXPLAIN " \o loc.sql
    /\ outcome.status = "ok"
    /\ outcome.value = (Calls(trace, "pool.query.ok") # {})


\* C5 (as claimed): no record whose vector length differs from the
\* collection's declared size 1536 is ever passed to client.upsert;
\* upsertVectors rejects it before a request is sent.
C5_NoWrongLengthReachesClient ==
  \A k \in Calls(trace, "client.upsert.point") : trace[k].n = VectorSize

TfsCalls == Calls(trace, "trainFromSchema.call")

TfsEnds == Calls(trace, "trainFromSchema.ok") \cup Calls(trace, "trainFromSchema.fail")

\* C6: a trainFromDdlArray(ddls) run that ends successfully has called
\* createCollection(1536) exactly once, first of all, and then trainFromSchema
\* exactly once per element, in input order, each call after the previous
\* one has returned; during any run at most one trainFromSchema is in flight.
C6_DdlArraySequential ==
  op = "trainFromDdlArray" =>
    /\ Cardinality(TfsCalls) - Cardinality(TfsEnds) \in {0, 1}
    /\ \A j, k \in TfsCalls : j < k => \E r \in TfsEnds : j < r /\ r < k
    /\ (pc = "done" /\ outcome.status = "ok") =>
         /\ Calls(trace, "createCollection.call") = {1}
         /\ trace[1].n = 1536
         /\ Cardinality(Calls(trace, "client.getCollections")) = 1
         /\ \E c \in Calls(trace, "createCollection.ok") : \A k \in TfsCalls : c < k
         /\ Cardinality(TfsCalls) = Len(loc.items)
         /\ Cardinality(Calls(trace, "trainFromSchema.ok")) = Len(loc.items)
         /\ \A k \in TfsCalls : /\ trace[k].n \in 1..Len(loc.items)
                                /\ trace[k].arg = loc.items[trace[k].n]
         /\ \A j, k \in TfsCalls : j < k => trace[j].n < trace[k].n

C6_Witness ==
  /\ op = "trainFromDdlArray" /\ pc = "done" /\ outcome.status = "ok"
  /\ Len(loc.items) = 3
  /\ loc.items[1] # loc.items[2]

C9_CollectionBeforeDiscovery ==
  op = "trainFromDatabase" =>
    /\ \A g \in Calls(trace, "getSchema.call") :
         \E c \in Calls(trace, "createCollection.call") : c < g /\ trace[c].n = 1536
    /\ (pc = "done" /\ Calls(trace, "getSchema.fail") # {}) =>
         /\ Cardinality(Calls(trace, "createCollection.call")) = 1
         /\ outcome.error.name = "TrainingError"

\* C10: every step in which a trainFromSchema returns successfully adds
\* exactly one record to the collection, under an id that was not in it
\* (holding the DDL), and leaves every record that was there as it was; so
\* training the same DDL twice adds two records.
C10_TrainingAddsFreshRecord ==
  [][(pc = "uv_upsert" /\
      Cardinality(Calls(trace', "trainFromSchema.ok")) > Cardinality(Calls(trace, "trainFromSchema.ok")))
       => /\ Cardinality(DOMAIN points') = Cardinality(DOMAIN points) + 1
          /\ \A id \in DOMAIN points : id \in DOMAIN points' /\ points'[id] = points[id]
          /\ \E id \in DOMAIN points' \ DOMAIN points : points'[id].content = loc.ddl]_vars

C10_Witness ==
  /\ op = "trainFromSchema" /\ pc = "done" /\ outcome.status = "ok"
  /\ \E a, b \in DOMAIN points :
       a # b /\ points[a].content = loc.ddl /\ points[b].content = loc.ddl
  /\ Cardinality(DOMAIN points) = 2


\* the events with which a step of askQuestion ends in failure
AskFailures == {"generateSql.fail", "gate.reject", "validateSql.fail", "executeQuery.fail"}

GenerationCalls == <<"generateSql.call", "embed", "client.search", "generateText">>

ValidationCalls(answer, end) ==
  GenerationCalls \o <<"generateSql.ok", "gate.pass", "validateSql.call", "pool.query", answer, end>>

ExecutionCalls(answer, end) ==
  ValidationCalls("pool.query.ok", "validateSql.ok") \o <<"executeQuery.call", "pool.query", answer, end>>

\* the complete call sequences of askQuestion; none depends on maxRetries
AskQuestionRuns ==
  {SubSeq(GenerationCalls, 1, k) \o <<"generateSql.fail">> : k \in 2..4}
  \cup {GenerationCalls \o <<"generateSql.ok", "gate.reject">>,
        ValidationCalls("pool.query.fail", "validateSql.fail"),
        ValidationCalls("pool.query.ok", "validateSql.ok"),
        ExecutionCalls("pool.query.ok", "executeQuery.ok"),
        ExecutionCalls("pool.query.fail", "executeQuery.fail")}

OutageReasons == {"connection refused", "embedding failed", "search failed", "completion failed"}

\* what a caller reads off an error value (name, message, cause chain)
ErrorKind(e) ==
  IF e.name = "QueryPipelineError" /\ e.msg = "Generated SQL has low confidence" /\ e.cause = <<>>
  THEN "low confidence"
  ELSE IF e.name = "QueryPipelineError" /\ e.msg = "SQL validation failed" /\ e.root = "syntax error"
  THEN "invalid SQL"
  ELSE IF e.name = "QueryPipelineError" /\ e.cause # <<>> /\ e.root \in OutageReasons
  THEN "outage"
  ELSE "other"

\* the database answers to the EXPLAIN query of the call in flight
ExplainFailures(reason) ==
  {k \in Calls(trace, "pool.query.fail") :
     trace[k].arg = reason /\ trace[k - 1].arg = "EXPLAIN " \o loc.sql}

\* what happened in the askQuestion call in flight
FailureKind ==
  IF Calls(trace, "gate.reject") # {} THEN "low confidence"
  ELSE IF ExplainFailures("syntax error") # {} THEN "invalid SQL"
  ELSE IF \/ \E k \in Calls(trace, "pool.query.fail") : trace[k].arg = "connection refused"
          \/ \E k \in Calls(trace, "generateSql.fail") :
               trace[k].arg \in {"Failed to generate embedding", "Vector search failed",
                                 "SQL generation failed"}
  THEN "outage"
  ELSE "other"

\* C12: the error of a failed askQuestion tells the caller which of the
\* three outcomes happened: ErrorKind, which reads the error value alone,
\* gives "low confidence" exactly for a gate rejection, "invalid SQL"
\* exactly when the database rejected the EXPLAIN of the candidate, and
\* "outage" exactly when a collaborator was out of reach; so no error value
\* of one outcome is an error value of another.
C12_FailuresDistinguishable ==
  (op = "askQuestion" /\ pc = "done" /\ outcome.status = "fail") =>
    ErrorKind(outcome.error) = FailureKind

C12_Witness ==
  /\ op = "askQuestion" /\ pc = "done" /\ outcome.status = "fail"
  /\ ExplainFailures("connection refused") # {}
  /\ ErrorKind(outcome.error) = "outage"
  /\ outcome.error.msg = "SQL validation failed"


\* C13 (as claimed): when the candidate has passed the gate and its EXPLAIN
\* validation query fails, askQuestion fails with the QueryPipelineError
\* that names the offending SQL ("Generated SQL is invalid: <sql>").
C13_InvalidSqlNamed ==
  (op = "askQuestion" /\ pc = "done" /\ Calls(trace, "gate.pass") # {}
     /\ \E r \in PgErrors : ExplainFailures(r) # {}) =>
    /\ outcome.status = "fail"
    /\ outcome.error.name = "QueryPipelineError"
    /\ outcome.error.msg = "Generated SQL is invalid"


\* C14 (as claimed): generateSql fails with a TextToSqlError whenever the
\* completion text is not parseable JSON or the parsed value lacks one of
\* sql, confidence, explanation: a candidate it returns has all three (a
\* confidence of NaN stands for one that is absent or not a number), and a
\* failed parse ends the call with the TextToSqlError as the cause.
C14_CandidateHasAllFields ==
  op = "askQuestion" =>
    /\ HasCandidate =>
         /\ loc.sql # Undefined
         /\ loc.confidence # NaN
         /\ loc.explanation # Undefined
    /\ \A k \in Calls(trace, "generateSql.fail") :
         /\ outcome.status = "fail"
         /\ outcome.error.cause[1] = "TextToSqlError"


TrainingOps == {"trainFromDatabase", "trainFromDdl", "trainFromDdlArray"}

\* the error each dependency of the training entry points fails with
DependencyError ==
  [c \in {"getSchema.fail", "createCollection.fail", "getTableSchema.fail", "trainFromSchema.fail"} |->
     CASE c = "createCollection.fail" -> "QdrantError"
       [] c = "trainFromSchema.fail" -> "TextToSqlError"
       [] OTHER -> "PostgresError"]

Running == [op |-> op, pc |-> pc, loc |-> loc, trace |-> trace, outcome |-> outcome]

\* the askQuestion call with registers c is as it would be when running
\* alone with the answers it got: every request carries the call's own
\* question or candidate, the gate decided on its own confidence, its call
\* sequence is one of askQuestion's, and its result carries its own data
AsAlone(c) ==
  c.op = "askQuestion" =>
    /\ c.trace[1] = E("generateSql.call", c.loc.question, 0)
    /\ \A k \in Calls(c.trace, "embed") \cup Calls(c.trace, "generateText") :
         c.trace[k].arg = c.loc.question
    /\ \A k \in Calls(c.trace, "generateSql.ok") :
         c.trace[k].arg = c.loc.sql /\ c.trace[k].n = c.loc.confidence
    /\ \A k \in Calls(c.trace, "gate.reject") :
         c.loc.confidence # NaN /\ c.loc.confidence < config.minConfidence
    /\ \A k \in Calls(c.trace, "gate.pass") :
         ~(c.loc.confidence # NaN /\ c.loc.confidence < config.minConfidence)
    /\ \A k \in Calls(c.trace, "pool.query") :
         c.trace[k].arg = (IF c.trace[k - 1].call = "validateSql.call"
                           THEN "EXPLAIN " \o c.loc.sql ELSE c.loc.sql)
    /\ c.pc = "done" =>
         /\ CallNames(c.trace) \in AskQuestionRuns
         /\ (c.outcome.status = "ok") <=>
              (c.trace[Len(c.trace)].call \in {"validateSql.ok", "executeQuery.ok"})
         /\ c.outcome.status = "ok" =>
              /\ c.outcome.value.question = c.loc.question
              /\ c.outcome.value.sql = c.loc.sql
              /\ c.outcome.value.confidence = c.loc.confidence
              /\ c.outcome.value.explanation = c.loc.explanation

\* C17: with two askQuestion calls interleaved at their yield points in
\* every possible way, every step leaves the configuration and the vector
\* index as they were, a step of the running call leaves the suspended call
\* as it was (a switch only exchanges the two), and after every step both
\* calls are as they would be when running alone with the answers they got.
C17_ConcurrentCallsIndependent ==
  [][/\ config' = config
     /\ <<collections, points, nextId>>' = <<collections, points, nextId>>
     /\ \/ parked' = parked
        \/ parked' = Running /\ Running' = parked
     /\ AsAlone(Running')
     /\ AsAlone(parked')]_vars

C17_Witness ==
  /\ op = "askQuestion" /\ parked.op = "askQuestion"
  /\ pc = "eq_query" /\ parked.pc = "vs_query"
  /\ loc.question # parked.loc.question
  /\ loc.sql # parked.loc.sql


\* C18 (as claimed): with two training calls interleaved at their yield
\* points while the collection is absent, the collection never exists more
\* than once, a call whose createCollection returned leaves it existing
\* with size 1536, and no call fails because the other created it first.
C18_CreateRaceBenign ==
  /\ Len(collections) <= 1
  /\ \A c \in {Running, parked} :
       c.op \in TrainingOps =>
         /\ Calls(c.trace, "createCollection.ok") # {} => collections = <<1536>>
         /\ c.outcome.status = "fail" => c.outcome.error.root # "already exists"


\* the create requests of the sequence of calls that were answered with
\* success
Created ==
  {k \in Calls(trace, "client.createCollection") : trace[k + 1].call = "createCollection.ok"}

\* the calls of the sequence made when the collection existed
CallsOnExisting ==
  {k \in Calls(trace, "createCollection.call") : \E c \in Created : c < k}

\* the event that ends the call begun at k, 0 while it is in flight
EndOfCall(k) ==
  LET ends == {e \in Calls(trace, "createCollection.ok") \cup Calls(trace, "createCollection.fail") : e > k}
  IN IF ends = {} THEN 0 ELSE CHOOSE e \in ends : \A f \in ends : e <= f

\* C19 (as claimed): over a sequence of createCollection calls at most one
\* create request is issued, a call on an existing collection issues no
\* create request and succeeds, and the declared size stays the one given
\* at creation.
C19_AtMostOneCreateRequest ==
  op = "createCollection" =>
    /\ Cardinality(Calls(trace, "client.createCollection")) <= 1
    /\ \A k \in CallsOnExisting :
         /\ \A r \in Calls(trace, "client.createCollection") : r < k
         /\ EndOfCall(k) # 0 => trace[EndOfCall(k)].call = "createCollection.ok"
    /\ \A c \in Created : collections = <<trace[c].n>>

\* C19 (amended): over a sequence of createCollection calls a create
\* request is issued only while the collection is absent, so at most one
\* create request succeeds; a call on an existing collection issues no
\* create request and succeeds unless listing the collections fails; and
\* the collection exists once, with the size given at creation.
C19_CreateIfAbsent ==
  op = "createCollection" =>
    /\ Cardinality(Created) <= 1
    /\ Len(collections) = Cardinality(Created)
    /\ \A c \in Created : collections = <<trace[c].n>>
    /\ \A k \in CallsOnExisting :
         /\ \A r \in Calls(trace, "client.createCollection") : r < k
         /\ EndOfCall(k) # 0 =>
              \/ trace[EndOfCall(k)].call = "createCollection.ok"
              \/ /\ EndOfCall(k) = k + 2
                 /\ trace[k + 1].call = "client.getCollections"
                 /\ outcome.status = "fail" => outcome.error.root = "unreachable"

C19_Witness ==
  /\ op = "createCollection" /\ pc = "done" /\ outcome.status = "ok"
  /\ Cardinality(Calls(trace, "createCollection.call")) = 3
  /\ Cardinality(Calls(trace, "client.createCollection")) = 2
  /\ collections = <<1536>>
  /\ loc.size = 512
  /\ Cardinality(CallsOnExisting) = 1


\* C20: a validateSql call whose EXPLAIN query fails with a connection
\* error does not return false: it fails with the QueryPipelineError
\* "SQL validation failed" whose cause is the PostgresError of the query.
C20_OutageFailsValidation ==
  (op = "validateSql" /\ pc = "done" /\ ExplainFailures("connection refused") # {}) =>
    /\ outcome.status = "fail"
    /\ outcome.error.name = "QueryPipelineError"
    /\ outcome.error.msg = "SQL validation failed"
    /\ outcome.error.cause = <<"PostgresError", "Error">>
    /\ outcome.error.root = "connection refused"

C20_Witness ==
  /\ op = "validateSql" /\ pc = "done"
  /\ ExplainFailures("connection refused") # {}
  /\ outcome.status = "fail"


C22_ExecuteOnlyAfterValidValidation ==
  op = "askQuestion" =>
    /\ (\E r \in PgErrors : ExplainFailures(r) # {}) =>
         /\ pc = "done"
         /\ outcome.status = "fail"
         /\ trace[Len(trace)].call = "validateSql.fail"
         /\ Calls(trace, "executeQuery.call") = {}
         /\ Cardinality(Calls(trace, "pool.query")) = 1
    /\ \A x \in Calls(trace, "executeQuery.call") :
         /\ trace[x - 1].call = "validateSql.ok"
         /\ trace[x - 2].call = "pool.query.ok"
         /\ trace[x - 3] = E("pool.query", "EXPLAIN " \o loc.sql, 0)
         /\ Calls(trace, "validateSql.fail") = {}
         /\ ~config.dryRun

C22_Witness ==
  /\ op = "askQuestion" /\ pc = "done" /\ ~config.dryRun
  /\ ExplainFailures("syntax error") # {}
  /\ outcome.status = "fail"


\* C23: the gate rejects on confidence < minConfidence only: a candidate
\* whose confidence is a number >= minConfidence (also one equal to it, and
\* any confidence >= 0 with minConfidence = 0) is never rejected and goes on
\* to validateSql, and a candidate with confidence 0.95 is rejected when
\* minConfidence = 1.0.
C23_GateStrictLessThan ==
  (HasCandidate /\ pc # "aq_gate") =>
    /\ (loc.confidence # NaN /\ loc.confidence >= config.minConfidence) =>
         /\ Calls(trace, "gate.reject") = {}
         /\ \E g \in Calls(trace, "gate.pass") : trace[g + 1].call = "validateSql.call"
    /\ (loc.confidence = 95 /\ config.minConfidence = 100) =>
         /\ trace[Len(trace)].call = "gate.reject"
         /\ outcome.status = "fail"
         /\ outcome.error.msg = "Generated SQL has low confidence"

C23_Witness ==
  /\ HasCandidate /\ pc = "vs_query"
  /\ loc.confidence = 0 /\ config.minConfidence = 0
  /\ Calls(trace, "gate.pass") # {}


\* C24: generateSql makes at most one embedding call, one vector search
\* (with limit 5) and one completion call, in this order; a generateSql that
\* returned made exactly one of each; the completion call is made whenever
\* the search answered, also with no records (context of 0 records); and
\* generateSql ends without a completion call exactly when the embedding or
\* the search failed.
C24_GenerateSqlSteps ==
  op = "askQuestion" =>
    /\ \A c \in {"embed", "client.search", "generateText"} : Cardinality(Calls(trace, c)) <= 1
    /\ \A s \in Calls(trace, "client.search") :
         /\ trace[s].n = 5
         /\ s = 3 /\ trace[2].call = "embed"
    /\ \A t \in Calls(trace, "generateText") :
         /\ t = 4 /\ trace[3].call = "client.search"
         /\ trace[t].n = Min(5, Cardinality(DOMAIN points))
    /\ \A k \in Calls(trace, "generateSql.ok") :
         SubSeq(CallNames(trace), 1, k) = GenerationCalls \o <<"generateSql.ok">>
    /\ \A f \in Calls(trace, "generateSql.fail") :
         (Calls(trace, "generateText") = {}) <=>
           (trace[f].arg \in {"Failed to generate embedding", "Vector search failed"})

C24_Witness ==
  /\ HasCandidate
  /\ \E t \in Calls(trace, "generateText") : trace[t].n = 0
  /\ points = <<>>


\* C25: a trainFromSchema(ddl) call embeds first.  The step that ends it at
\* the embedding leaves the stored records as they were, has called neither
\* upsertVectors nor client.upsert, and fails with the TextToSqlError
\* "Failed to generate embedding" wrapping the cause.  The step that ends it
\* at the upsert either fails with the TextToSqlError "Failed to store
\* schema" wrapping the QdrantError, the records left as they were, or
\* succeeds having sent exactly one record, with content ddl, which is then stored.
C25_TrainFromSchemaEmbedsThenStores ==
  [][(op = "trainFromSchema" /\ pc' = "done" /\ pc # "done") =>
       /\ trace'[2] = E("embed", loc.ddl, 0)
       /\ pc \in {"tfs_embed", "uv_upsert"}
       /\ pc = "tfs_embed" =>
            /\ points' = points
            /\ Calls(trace', "upsertVectors.call") = {}
            /\ Calls(trace', "client.upsert.point") = {}
            /\ outcome'.status = "fail"
            /\ outcome'.error.name = "TextToSqlError"
            /\ outcome'.error.msg = "Failed to generate embedding"
            /\ outcome'.error.cause = <<"Error">>
       /\ pc = "uv_upsert" =>
            /\ Calls(trace', "upsertVectors.call") = {3}
            /\ trace'[3].n = 1
            /\ Cardinality(Calls(trace', "client.upsert.point")) = 1
            /\ \A k \in Calls(trace', "client.upsert.point") : trace'[k].arg = loc.ddl
            /\ IF outcome'.status = "ok"
               THEN /\ Cardinality(DOMAIN points' \ DOMAIN points) = 1
                    /\ \A id \in DOMAIN points' \ DOMAIN points : points'[id].content = loc.ddl
               ELSE /\ points' = points
                    /\ outcome'.error.name = "TextToSqlError"
                    /\ outcome'.error.msg = "Failed to store schema"
                    /\ outcome'.error.cause = <<"QdrantError", "Error">>]_vars

C25_Witness ==
  /\ op = "trainFromSchema" /\ pc = "done"
  /\ outcome.status = "fail"
  /\ outcome.error.msg = "Failed to generate embedding"
  /\ Cardinality(DOMAIN points) = 1


\* the calls trainFromDatabase makes per table, and the events that end them
UnitCalls == Calls(trace, "getTableSchema.call") \cup TfsCalls

UnitEnds ==
  Calls(trace, "getTableSchema.ok") \cup Calls(trace, "getTableSchema.fail") \cup TfsEnds

\* C26: trainFromDatabase takes the tables [t1..tn] of getSchema one after
\* the other in that order: at most one getTableSchema or trainFromSchema is
\* in flight, the k-th such call is getTableSchema(t_i) for k = 2i-1 and
\* trainFromSchema(ddl_i) for k = 2i, each made only after the call before
\* it has returned, and a run that succeeds has called each exactly n times.
C26_TablesInOrder ==
  op = "trainFromDatabase" =>
    /\ Cardinality(UnitCalls) - Cardinality(UnitEnds) \in {0, 1}
    /\ \A c \in UnitCalls :
         LET k == Cardinality({d \in UnitCalls : d <= c})
             i == (k + 1) \div 2
         IN /\ i \in 1..Len(loc.items)
            /\ trace[c].n = i
            /\ Cardinality({e \in UnitEnds : e < c}) = k - 1
            /\ IF k % 2 = 1
               THEN trace[c] = E("getTableSchema.call", loc.items[i], i)
               ELSE /\ trace[c] = E("trainFromSchema.call", TableDdl(loc.items[i], ColumnRows), i)
                    /\ trace[c - 1] = E("getTableSchema.ok", loc.items[i], i)
    /\ (pc = "done" /\ outcome.status = "ok") =>
         /\ Cardinality(TfsCalls) = Len(loc.items)
         /\ Cardinality(Calls(trace, "getTableSchema.call")) = Len(loc.items)
         /\ Cardinality(Calls(trace, "trainFromSchema.ok")) = Len(loc.items)

C26_Witness ==
  /\ op = "trainFromDatabase" /\ pc = "done" /\ outcome.status = "ok"
  /\ Len(loc.items) = 3
  /\ Cardinality(TfsCalls) = 3


PipelineOps == {"askQuestion", "validateSql", "explainQuery"}

\* C27: over any sequence of trainFromDatabase, trainFromDdl,
\* trainFromDdlArray, askQuestion, validateSql and explainQuery calls, no
\* step deletes the collection or sends a delete request, every stored
\* record stays stored (so their number never decreases), and the steps of
\* askQuestion, validateSql and explainQuery leave the collection and its
\* records as they were.
C27_CollectionAdditiveOnly ==
  [][/\ Calls(trace', "client.deleteCollection") = {}
     /\ Len(collections') >= Len(collections)
     /\ Cardinality(DOMAIN points') >= Cardinality(DOMAIN points)
     /\ \A id \in DOMAIN points : id \in DOMAIN points' /\ points'[id] = points[id]
     /\ op' \in PipelineOps => <<collections, points>>' = <<collections, points>>]_vars

C27_Witness ==
  /\ op = "askQuestion" /\ pc = "done"
  /\ Cardinality(DOMAIN points) = 2
  /\ loc.context = 2
  /\ collections = <<1536>>


\* C28 (as claimed): in every askQuestion call that invokes executeQuery the
\* candidate's confidence is a number >= minConfidence; a candidate whose
\* confidence is missing or not a number does not reach execution.
C28_ExecutedCandidateHasConfidence ==
  (op = "askQuestion" /\ Calls(trace, "executeQuery.call") # {}) =>
    /\ loc.confidence # NaN
    /\ loc.confidence >= config.minConfidence


\* what a finished validateSql or explainQuery call on statement sql looks
\* like when the database answered pgRes: the configuration does not occur
ConfigFreeRun(name, sql, pgRes) ==
  LET answer == IF pgRes.status = "ok" THEN E("pool.query.ok", pgRes.value, 0)
                ELSE E("pool.query.fail", pgRes.error.root, 0)
  IN IF name = "explainQuery"
     THEN [trace |-> <<E("explainQuery.call", sql, 0),
                       E("pool.query", "EXPLAIN ANALYZE " \o sql, 0), answer>>,
           outcome |-> IF pgRes.status = "ok" THEN Ok(pgRes.value)
                       ELSE Fail(MkError("QueryPipelineError", "Query explanation failed", pgRes.error))]
     ELSE [trace |-> <<E("validateSql.call", sql, 0),
                       E("pool.query", "EXPLAIN " \o sql, 0), answer,
                       E(IF pgRes.status = "ok" THEN "validateSql.ok" ELSE "validateSql.fail", sql, 0)>>,
           outcome |-> IF pgRes.status = "ok" THEN Ok(TRUE)
                       ELSE Fail(MkError("QueryPipelineError", "SQL validation failed", pgRes.error))]

ProvideLayersShared(r) ==
  [r EXCEPT !.operations = @ + 1,
            !.pools = IF @ = 0 THEN 1 ELSE @,
            !.clients = IF @ = 0 THEN 1 ELSE @]

\* Effect.provide(this.allLayers): the getter builds new layers on every
\* call; baseLayer is one reference, built once per provide, so
\* PostgresLive runs new Pool(...) once and QdrantLive new QdrantClient(...)
\* once; Layer.effect registers no finalizer
ProvideLayers(r) ==
  [r EXCEPT !.operations = @ + 1, !.pools = @ + 1, !.clients = @ + 1]

\* PostgresService.close: pool.end()
Close ==
  /\ Idle
  /\ runtime.closed < runtime.pools
  /\ runtime' = [runtime EXCEPT !.closed = @ + 1]
  /\ UNCHANGED <<config, embeddingDim, parked, op, pc, loc, trace, outcome, store>>

SqlGenAsk(question) ==
  /\ Idle
  /\ runtime.operations < MaxOps
  /\ runtime' = ProvideLayers(runtime)
  /\ op' = "askQuestion"
  /\ pc' = "gs_embed"
  /\ loc' = [Loc0 EXCEPT !.question = question]
  /\ trace' = <<E("generateSql.call", question, 0)>>
  /\ outcome' = NoOutcome
  /\ UNCHANGED <<config, embeddingDim, parked, store>>

\* train(): hands out the TrainingService of newly built layers
SqlGenTrain ==
  /\ Idle
  /\ runtime.operations < MaxOps
  /\ runtime' = ProvideLayers(runtime)
  /\ op' = "train"
  /\ pc' = "done"
  /\ loc' = Loc0
  /\ trace' = <<>>
  /\ outcome' = Ok("TrainingService")
  /\ UNCHANGED <<config, embeddingDim, parked, store>>

SqlGenTrainFromDatabase ==
  /\ Idle
  /\ runtime.operations < MaxOps
  /\ runtime' = ProvideLayers(runtime)
  /\ op' = "trainFromDatabase"
  /\ pc' = "tdb_getSchema"
  /\ loc' = Loc0
  /\ trace' = <<E("getSchema.call", "", 0)>>
  /\ outcome' = NoOutcome
  /\ UNCHANGED <<config, embeddingDim, parked, store>>

SqlGenTrainFromDdl(ddl) ==
  /\ Idle
  /\ Budget >= 1
  /\ runtime.operations < MaxOps
  /\ runtime' = ProvideLayers(runtime)
  /\ op' = "trainFromDdl"
  /\ pc' = "cc_getCollections"
  /\ loc' = [Loc0 EXCEPT !.items = <<ddl>>, !.size = VectorSize]
  /\ trace' = <<E("createCollection.call", CollectionName, VectorSize)>>
  /\ outcome' = NoOutcome
  /\ UNCHANGED <<config, embeddingDim, parked, store>>

SqlGenTrainFromDdlArray(ddls) ==
  /\ Idle
  /\ Budget >= Len(ddls)
  /\ runtime.operations < MaxOps
  /\ runtime' = ProvideLayers(runtime)
  /\ op' = "trainFromDdlArray"
  /\ pc' = "cc_getCollections"
  /\ loc' = [Loc0 EXCEPT !.items = ddls, !.size = VectorSize]
  /\ trace' = <<E("createCollection.call", CollectionName, VectorSize)>>
  /\ outcome' = NoOutcome
  /\ UNCHANGED <<config, embeddingDim, parked, store>>

SqlGenValidateSql(sql) ==
  /\ Idle
  /\ runtime.operations < MaxOps
  /\ runtime' = ProvideLayers(runtime)
  /\ op' = "validateSql"
  /\ pc' = "vs_query"
  /\ loc' = [Loc0 EXCEPT !.sql = sql]
  /\ trace' = <<E("validateSql.call", sql, 0)>>
  /\ outcome' = NoOutcome
  /\ UNCHANGED <<config, embeddingDim, parked, store>>

SqlGenExplainQuery(sql) ==
  /\ Idle
  /\ runtime.operations < MaxOps
  /\ runtime' = ProvideLayers(runtime)
  /\ op' = "explainQuery"
  /\ pc' = "xq_query"
  /\ loc' = [Loc0 EXCEPT !.sql = sql]
  /\ trace' = <<E("explainQuery.call", sql, 0)>>
  /\ outcome' = NoOutcome
  /\ UNCHANGED <<config, embeddingDim, parked, store>>

\* C30: after any sequence of n facade operations, finished or in flight,
\* n connection pools and n Qdrant clients have been created and no pool
\* has been closed.
C30_OnePoolPerOperationNoneClosed ==
  /\ runtime.pools = runtime.operations
  /\ runtime.clients = runtime.operations
  /\ runtime.closed = 0

C30_Witness ==
  /\ runtime.operations = 3
  /\ runtime.pools = 3
  /\ op = "explainQuery" /\ pc = "done"
  /\ points # <<>>


PipelineNext ==
  \/ \E q \in Questions : StartAskQuestion(q)
  \/ \E sql \in Sqls : StartValidateSql(sql)
  \/ \E sql \in Sqls : StartExplainQuery(sql)
  \/ GsEmbed
  \/ GsSearch
  \/ GsComplete
  \/ AqGate
  \/ VsQuery
  \/ EqQuery
  \/ XqQuery

TrainingNext ==
  \/ StartTrainFromDatabase
  \/ \E ddl \in Ddls : StartTrainFromDdl(ddl)
  \/ \E ddls \in DdlLists : StartTrainFromDdlArray(ddls)
  \/ \E ddl \in Ddls : StartTrainFromSchema(ddl)
  \/ \E size \in EmbeddingDims : StartCreateCollection(size)
  \/ \E vs \in VectorBatches : StartUpsertVectors(vs)
  \/ TdbGetSchema
  \/ CcGetCollections
  \/ CcCreate
  \/ TdbGetTableSchema
  \/ TfsEmbed
  \/ UvUpsert

Next == PipelineNext \/ TrainingNext \/ Close

\* the whole core; the claims are checked on its two halves below, which
\* share no state but the collection (written by training only)
Spec == Init /\ [][Next]_vars

\* the query pipeline alone, for every pipeline configuration
PipelineSpec == Init /\ [][PipelineNext]_vars

\* the reference pipeline configuration; training never reads it
ReferenceConfig == [minConfidence |-> 70, dryRun |-> FALSE, maxRetries |-> 3]

\* training and the vector index alone
TrainingInit == Init /\ config = ReferenceConfig

TrainingSpec == TrainingInit /\ [][TrainingNext]_vars

\* two askQuestion calls on one pipeline instance, interleaved at their
\* yield points
ConcurrentAskNext ==
  \/ \E q \in Questions : StartAskQuestion(q)
  \/ GsEmbed
  \/ GsSearch
  \/ GsComplete
  \/ AqGate
  \/ VsQuery
  \/ EqQuery
  \/ Switch

ConcurrentAskInit == Init /\ embeddingDim = VectorSize /\ config.maxRetries = 3

ConcurrentAskSpec == ConcurrentAskInit /\ [][ConcurrentAskNext]_vars

\* two trainFromDdl calls on the same services, interleaved at their yield
\* points
ConcurrentTrainNext ==
  \/ \E ddl \in Ddls : StartTrainFromDdl(ddl)
  \/ CcGetCollections
  \/ CcCreate
  \/ TfsEmbed
  \/ UvUpsert
  \/ Switch

ConcurrentTrainSpec == TrainingInit /\ [][ConcurrentTrainNext]_vars

\* a sequence of createCollection calls on one QdrantService
CollectionNext ==
  \/ \E size \in EmbeddingDims : StartNextCreateCollection(size)
  \/ CcGetCollections
  \/ CcCreate

CollectionSpec == TrainingInit /\ [][CollectionNext]_vars

\* the operations of the core in any sequence: the query pipeline and the
\* three training entry points
CoreNext ==
  \/ PipelineNext
  \/ StartTrainFromDatabase
  \/ \E ddl \in Ddls : StartTrainFromDdl(ddl)
  \/ \E ddls \in DdlLists : StartTrainFromDdlArray(ddls)
  \/ TdbGetSchema
  \/ CcGetCollections
  \/ CcCreate
  \/ TdbGetTableSchema
  \/ TfsEmbed
  \/ UvUpsert

CoreInit == TrainingInit /\ embeddingDim = VectorSize

CoreSpec == CoreInit /\ [][CoreNext]_vars

\* the facade: every operation runs under layers of its own, one after the
\* other on one SqlGen instance
FacadeNext ==
  \/ \E question \in Questions : SqlGenAsk(question)
  \/ SqlGenTrain
  \/ SqlGenTrainFromDatabase
  \/ \E ddl \in Ddls : SqlGenTrainFromDdl(ddl)
  \/ \E ddls \in DdlLists : SqlGenTrainFromDdlArray(ddls)
  \/ \E sql \in Sqls : SqlGenValidateSql(sql)
  \/ \E sql \in Sqls : SqlGenExplainQuery(sql)
  \/ GsEmbed
  \/ GsSearch
  \/ GsComplete
  \/ AqGate
  \/ VsQuery
  \/ EqQuery
  \/ XqQuery
  \/ TdbGetSchema
  \/ CcGetCollections
  \/ CcCreate
  \/ TdbGetTableSchema
  \/ TfsEmbed
  \/ UvUpsert

FacadeSpec == CoreInit /\ [][FacadeNext]_vars

====
